---- MODULE Spec2Model ----
(***************************************************************************)
(* WebsocketClientPolicy (openpi_client/websocket_client_policy.py):       *)
(* the connect/retry handshake, the metadata capture and the               *)
(* send-request / receive-reply discipline of infer().                     *)
(***************************************************************************)
EXTENDS Integers, Sequences, FiniteSets, TLC

(***************************************************************************)
(* Bounds of the model.                                                    *)
(***************************************************************************)
MaxRefused == 2
MaxCalls == 2
MaxResets == 1
MaxMetaReads == 1
MaxWait == 2
MaxAttempts == 4

(***************************************************************************)
(* Program constants.                                                      *)
(***************************************************************************)
SleepSeconds == 5

None == "None"
NoConn == 0

(***************************************************************************)
(* Values handled by the codec.  Every value is a tagged record whose v    *)
(* field is a sequence: an integer <<n>>, the character codes of a string, *)
(* the elements of an array, the <<key, value>> entries of a mapping.      *)
(* Obj is a Python object the codec has no serialisation for.              *)
(***************************************************************************)
IntV(n) == [t |-> "int", v |-> <<n>>]
StrV(s) == [t |-> "str", v |-> s]
ArrV(xs) == [t |-> "arr", v |-> xs]
MapV(es) == [t |-> "map", v |-> es]
Obj == [t |-> "obj", v |-> <<>>]
NoValue == [t |-> "none", v |-> <<>>]

(***************************************************************************)
(* msgpack encoding of the values above: positive fixint (0x00..0x7f),     *)
(* fixstr (0xa0 + length), fixarray (0x90 + length), fixmap (0x80 + n).    *)
(* The result is [ok, b]: ok is FALSE when some part cannot be serialised. *)
(***************************************************************************)
RECURSIVE PackValue(_)
RECURSIVE PackSeq(_)
RECURSIVE PackEntries(_)

PackSeq(xs) ==
    IF xs = <<>> THEN [ok |-> TRUE, b |-> <<>>]
    ELSE LET h == PackValue(Head(xs))
             r == PackSeq(Tail(xs))
         IN  [ok |-> h.ok /\ r.ok, b |-> h.b \o r.b]

PackEntries(es) ==
    IF es = <<>> THEN [ok |-> TRUE, b |-> <<>>]
    ELSE LET k == PackValue(Head(es)[1])
             x == PackValue(Head(es)[2])
             r == PackEntries(Tail(es))
         IN  [ok |-> k.ok /\ x.ok /\ r.ok, b |-> k.b \o x.b \o r.b]

PackValue(x) ==
    CASE x.t = "int" -> [ok |-> x.v[1] >= 0 /\ x.v[1] <= 127, b |-> x.v]
      [] x.t = "str" -> [ok |-> Len(x.v) <= 31, b |-> <<160 + Len(x.v)>> \o x.v]
      [] x.t = "arr" -> LET r == PackSeq(x.v)
                        IN  [ok |-> r.ok /\ Len(x.v) <= 15,
                             b |-> <<144 + Len(x.v)>> \o r.b]
      [] x.t = "map" -> LET r == PackEntries(x.v)
                        IN  [ok |-> r.ok /\ Len(x.v) <= 15,
                             b |-> <<128 + Len(x.v)>> \o r.b]
      [] OTHER -> [ok |-> FALSE, b |-> <<>>]

pack(obs) == PackValue(obs)

(***************************************************************************)
(* The writes Packer.pack makes into the packer's buffer, one after the    *)
(* other: a header, the bytes of a string, each item in turn.  The result  *)
(* is [ok, w]: w holds the writes made, up to the part that cannot be      *)
(* serialised when ok is FALSE.  pack returns the buffer's content and     *)
(* empties the buffer; on failure it empties the buffer and raises.        *)
(***************************************************************************)
RECURSIVE PackWrites(_)
RECURSIVE PackWritesSeq(_)
RECURSIVE PackWritesEntries(_)

PackWritesSeq(xs) ==
    IF xs = <<>> THEN [ok |-> TRUE, w |-> <<>>]
    ELSE LET h == PackWrites(Head(xs))
         IN  IF ~h.ok THEN h
             ELSE LET r == PackWritesSeq(Tail(xs))
                  IN  [ok |-> r.ok, w |-> h.w \o r.w]

PackWritesEntries(es) ==
    IF es = <<>> THEN [ok |-> TRUE, w |-> <<>>]
    ELSE LET k == PackWrites(Head(es)[1])
         IN  IF ~k.ok THEN k
             ELSE LET x == PackWrites(Head(es)[2])
                  IN  IF ~x.ok THEN [ok |-> FALSE, w |-> k.w \o x.w]
                      ELSE LET r == PackWritesEntries(Tail(es))
                           IN  [ok |-> r.ok, w |-> k.w \o x.w \o r.w]

PackWrites(x) ==
    CASE x.t = "int" ->
            IF x.v[1] >= 0 /\ x.v[1] <= 127 THEN [ok |-> TRUE, w |-> <<x.v>>]
            ELSE [ok |-> FALSE, w |-> <<>>]
      [] x.t = "str" ->
            IF Len(x.v) <= 31 THEN [ok |-> TRUE, w |-> << <<160 + Len(x.v)>>, x.v >>]
            ELSE [ok |-> FALSE, w |-> <<>>]
      [] x.t = "arr" ->
            IF Len(x.v) <= 15
            THEN LET r == PackWritesSeq(x.v)
                 IN  [ok |-> r.ok, w |-> << <<144 + Len(x.v)>> >> \o r.w]
            ELSE [ok |-> FALSE, w |-> <<>>]
      [] x.t = "map" ->
            IF Len(x.v) <= 15
            THEN LET r == PackWritesEntries(x.v)
                 IN  [ok |-> r.ok, w |-> << <<128 + Len(x.v)>> >> \o r.w]
            ELSE [ok |-> FALSE, w |-> <<>>]
      [] OTHER -> [ok |-> FALSE, w |-> <<>>]

(***************************************************************************)
(* msgpack decoding.  ParseAt(b, i) reads one value starting at index i    *)
(* and gives [ok, val, next]; unpackb succeeds when exactly one value      *)
(* fills the whole input (no missing and no extra bytes) and every         *)
(* mapping key is a string.                                                *)
(***************************************************************************)
RECURSIVE ParseAt(_, _)
RECURSIVE ParseItems(_, _, _)
RECURSIVE ParseEntries(_, _, _)

ParseFail == [ok |-> FALSE, val |-> NoValue, next |-> 0]

\* the value of a one-element set; a sub-result is bound as the element of a
\* one-element set, so that it is computed once however often it is read
The(S) == CHOOSE x \in S : TRUE

ParseItems(b, i, n) ==
    IF n = 0 THEN [ok |-> TRUE, val |-> <<>>, next |-> i]
    ELSE The({ IF ~h.ok THEN [ok |-> FALSE, val |-> <<>>, next |-> 0]
               ELSE The({ [ok |-> r.ok, val |-> <<h.val>> \o r.val, next |-> r.next] :
                          r \in {ParseItems(b, h.next, n - 1)} }) :
               h \in {ParseAt(b, i)} })

ParseEntries(b, i, n) ==
    IF n = 0 THEN [ok |-> TRUE, val |-> <<>>, next |-> i]
    ELSE The({ IF ~k.ok \/ k.val.t # "str" THEN [ok |-> FALSE, val |-> <<>>, next |-> 0]
               ELSE The({ IF ~x.ok THEN [ok |-> FALSE, val |-> <<>>, next |-> 0]
                          ELSE The({ [ok |-> r.ok,
                                      val |-> << <<k.val, x.val>> >> \o r.val,
                                      next |-> r.next] :
                                     r \in {ParseEntries(b, x.next, n - 1)} }) :
                          x \in {ParseAt(b, k.next)} }) :
               k \in {ParseAt(b, i)} })

ParseAt(b, i) ==
    IF i > Len(b) THEN ParseFail
    ELSE LET c == b[i]
         IN  CASE c >= 0 /\ c <= 127 ->
                    [ok |-> TRUE, val |-> IntV(c), next |-> i + 1]
               [] c >= 160 /\ c <= 191 ->
                    IF i + (c - 160) > Len(b) THEN ParseFail
                    ELSE [ok |-> TRUE,
                          val |-> StrV(SubSeq(b, i + 1, i + (c - 160))),
                          next |-> i + 1 + (c - 160)]
               [] c >= 144 /\ c <= 159 ->
                    The({ IF r.ok THEN [ok |-> TRUE, val |-> ArrV(r.val), next |-> r.next]
                          ELSE ParseFail :
                          r \in {ParseItems(b, i + 1, c - 144)} })
               [] c >= 128 /\ c <= 143 ->
                    The({ IF r.ok THEN [ok |-> TRUE, val |-> MapV(r.val), next |-> r.next]
                          ELSE ParseFail :
                          r \in {ParseEntries(b, i + 1, c - 128)} })
               [] OTHER -> ParseFail

unpackb(b) ==
    The({ IF r.ok /\ r.next = Len(b) + 1 THEN [ok |-> TRUE, val |-> r.val]
          ELSE [ok |-> FALSE, val |-> NoValue] :
          r \in {ParseAt(b, 1)} })

(***************************************************************************)
(* Text is a sequence of character codes.                                  *)
(***************************************************************************)
RECURSIVE Digits(_)
Digits(n) == IF n < 10 THEN <<48 + n>> ELSE Digits(n \div 10) \o <<48 + (n % 10)>>

NoTimeout == -1

FormatTimeout(timeout) ==
    IF timeout = NoTimeout THEN <<78, 111, 110, 101>> ELSE Digits(timeout)

\* f"Timeout waiting for inference response (timeout={timeout}s)"
TimeoutMessage(timeout) ==
    <<84, 105, 109, 101, 111, 117, 116, 32, 119, 97, 105, 116, 105, 110, 103,
      32, 102, 111, 114, 32, 105, 110, 102, 101, 114, 101, 110, 99, 101, 32,
      114, 101, 115, 112, 111, 110, 115, 101, 32, 40, 116, 105, 109, 101, 111,
      117, 116, 61>> \o FormatTimeout(timeout) \o <<115, 41>>

\* variant: the error carries the response alone
ServerErrorMessageBare(response) == response

\* f"Error in inference server:\n{response}"
ServerErrorMessage(response) ==
    <<69, 114, 114, 111, 114, 32, 105, 110, 32, 105, 110, 102, 101, 114, 101,
      110, 99, 101, 32, 115, 101, 114, 118, 101, 114, 58, 10>> \o response

(***************************************************************************)
(* Inputs: the callers' requests and timeouts, the connector's script and  *)
(* the messages a server may put on the connection.                        *)
(***************************************************************************)
Callers == {1, 2}
Constructor == 0

ReqA == MapV(<< <<StrV(<<111>>), ArrV(<<IntV(1), IntV(2)>>)>> >>)
ReqB == MapV(<< <<StrV(<<111>>), ArrV(<<IntV(3)>>)>> >>)
ReqBad == MapV(<< <<StrV(<<111>>), Obj>> >>)
Requests == {ReqA, ReqB, ReqBad}

Timeouts == {NoTimeout, 0, 1}

FatalConnectFailures == {"TimeoutError", "InvalidStatus"}
ConnectOutcomes == {"accept"} \cup FatalConnectFailures

Binary(b, k) == [type |-> "binary", body |-> b, re |-> k]
Text(s, k) == [type |-> "text", body |-> s, re |-> k]

\* {"d": 7}, a truncated mapping, and a text frame
MetadataBodies == {<<129, 161, 100, 7>>, <<129, 161, 100>>}
MetadataMessages ==
    {Binary(b, 0) : b \in MetadataBodies} \cup {Text(<<98, 97, 100>>, 0)}

\* {"a": [k]}, a byte no msgpack value starts with, and a text frame
ReplyMessages(k) ==
    {Binary(<<129, 161, 97, 145, k>>, k), Binary(<<193>>, k), Text(<<98, 97, 100>>, k)}

VARIABLES
    connector,        \* input: [refusals, final], the connector's behaviour
    active,           \* input: the callers that use the client
    timeouts,         \* input: the timeouts the callers pass to infer
    pc,               \* position of __init__: connect, recv_metadata, ready, failed
    attempts,         \* connect calls made
    sleeps,           \* time.sleep calls made
    elapsed,          \* time spent in time.sleep
    opened,           \* connections the connector has opened
    conn,             \* _wait_for_server's local conn
    ws,               \* self._ws
    server_metadata,  \* self._server_metadata
    ctor_error,       \* the exception __init__ raised
    inbox,            \* messages delivered on the connection, not yet received
    served,           \* what the server has put on the connection: [meta, replies]
    oplog,            \* operations performed on connections, in order
    call,             \* per caller: the infer call in progress
    result,           \* per caller: outcome of the last completed call
    ncalls,           \* infer calls started
    nresets,          \* reset calls made
    nmeta,            \* get_server_metadata calls made
    packer,           \* self._packer: the bytes in the packer's buffer
    packing,          \* per caller: the pack call in progress
    overlapped        \* history: a call started while another was in progress

clientVars == <<pc, conn, ws, server_metadata, ctor_error>>
retryVars == <<attempts, sleeps, elapsed>>
wireVars == <<opened, inbox, served, oplog>>
callVars == <<call, result, ncalls, nresets, nmeta>>
packVars == <<packer, packing, overlapped>>
inputVars == <<connector, active, timeouts>>
vars == <<connector, active, timeouts, pc, attempts, sleeps, elapsed, opened, conn, ws,
          server_metadata, ctor_error, inbox, served, oplog, call, result,
          ncalls, nresets, nmeta, packer, packing, overlapped>>

Idle == [pc |-> "idle", obs |-> NoValue, timeout |-> NoTimeout, waited |-> 0]
NoPacking == [todo |-> <<>>, ok |-> TRUE, data |-> <<>>]
NoResult == [op |-> "none", kind |-> "none", exc |-> "none", msg |-> <<>>,
             value |-> NoValue, obs |-> NoValue, timeout |-> NoTimeout]

Returned(op, value, obs, timeout) ==
    [op |-> op, kind |-> "return", exc |-> "none", msg |-> <<>>,
     value |-> value, obs |-> obs, timeout |-> timeout]
Raised(op, exc, msg, obs, timeout) ==
    [op |-> op, kind |-> "raise", exc |-> exc, msg |-> msg,
     value |-> NoValue, obs |-> obs, timeout |-> timeout]

Op(name, by, c, m) == [op |-> name, by |-> by, conn |-> c, msg |-> m]
NoMsg == Binary(<<>>, 0)

\* the state before __init__ runs, whatever the connector and the callers
InitState ==
    /\ pc = "connect"
    /\ attempts = 0 /\ sleeps = 0 /\ elapsed = 0
    /\ opened = 0
    /\ conn = NoConn /\ ws = NoConn
    /\ server_metadata = NoValue
    /\ ctor_error = None
    /\ inbox = <<>>
    /\ served = [meta |-> FALSE, replies |-> 0]
    /\ oplog = <<>>
    /\ call = [c \in Callers |-> Idle]
    /\ result = [c \in Callers |-> NoResult]
    /\ ncalls = 0 /\ nresets = 0 /\ nmeta = 0
    /\ packer = <<>>
    /\ packing = [c \in Callers |-> NoPacking]
    /\ overlapped = FALSE

InitCommon ==
    /\ connector \in [refusals : 0..MaxRefused, final : ConnectOutcomes]
    /\ InitState

\* one caller, calling sequentially
Init == InitCommon /\ active = {1} /\ timeouts = Timeouts

\* two callers sharing the client without serialising their calls; they call
\* without a timeout
InitConc ==
    /\ connector \in [refusals : {0}, final : ConnectOutcomes]
    /\ InitState
    /\ active = {1, 2}
    /\ timeouts = {NoTimeout}

\* one caller; the connector may also refuse every attempt
InitFair ==
    /\ connector \in [refusals : 0..MaxRefused,
                      final : ConnectOutcomes \cup {"ConnectionRefusedError"}]
    /\ InitState
    /\ active = {1}
    /\ timeouts = Timeouts

(***************************************************************************)
(* _wait_for_server.  The except clause of the loop covers the whole body  *)
(* of the try: connect, recv and unpackb.                                  *)
(***************************************************************************)
\* variant: the except clause retries at once, without sleeping
ExceptNoSleep(e) ==
    IF e = "ConnectionRefusedError"
    THEN /\ pc' = "connect"
         /\ UNCHANGED <<sleeps, elapsed, ctor_error>>
    ELSE /\ pc' = "failed"
         /\ ctor_error' = e
         /\ UNCHANGED <<sleeps, elapsed>>

\* variant: the except clause catches every exception
ExceptAll(e) ==
    /\ sleeps' = sleeps + 1
    /\ elapsed' = elapsed + SleepSeconds
    /\ pc' = "connect"
    /\ ctor_error' = ctor_error

\* variant: a failed handshake is retried like a refused connection
ExceptRetriesCodec(e) ==
    IF e \in {"ConnectionRefusedError", "TypeError", "ValueError"}
    THEN /\ sleeps' = sleeps + 1
         /\ elapsed' = elapsed + SleepSeconds
         /\ pc' = "connect"
         /\ ctor_error' = ctor_error
    ELSE /\ pc' = "failed"
         /\ ctor_error' = e
         /\ UNCHANGED <<sleeps, elapsed>>

Except(e) ==
    IF e = "ConnectionRefusedError"
    THEN /\ sleeps' = sleeps + 1
         /\ elapsed' = elapsed + SleepSeconds
         /\ pc' = "connect"
         /\ ctor_error' = ctor_error
    ELSE /\ pc' = "failed"
         /\ ctor_error' = e
         /\ UNCHANGED <<sleeps, elapsed>>

\* what the connector does on the next connect call
ConnectOutcome ==
    IF attempts < connector.refusals THEN "ConnectionRefusedError"
    ELSE connector.final

\* variant: the connection is returned without receiving the metadata
ConnectAcceptedNoMetadata ==
    /\ pc = "connect"
    /\ ConnectOutcome = "accept"
    /\ attempts' = attempts + 1
    /\ opened' = opened + 1
    /\ conn' = opened + 1
    /\ inbox' = <<>>
    /\ served' = [meta |-> FALSE, replies |-> 0]
    /\ oplog' = Append(oplog, Op("connect", Constructor, opened + 1, NoMsg))
    /\ ws' = opened + 1
    /\ server_metadata' = MapV(<<>>)
    /\ pc' = "ready"
    /\ UNCHANGED <<sleeps, elapsed, ctor_error>>
    /\ UNCHANGED callVars /\ UNCHANGED inputVars
    /\ UNCHANGED packVars

ConnectAccepted ==
    /\ pc = "connect"
    /\ ConnectOutcome = "accept"
    /\ attempts' = attempts + 1
    /\ opened' = opened + 1
    /\ conn' = opened + 1
    /\ inbox' = <<>>
    /\ served' = [meta |-> FALSE, replies |-> 0]
    /\ oplog' = Append(oplog, Op("connect", Constructor, opened + 1, NoMsg))
    /\ pc' = "recv_metadata"
    /\ UNCHANGED <<sleeps, elapsed, ws, server_metadata, ctor_error>>
    /\ UNCHANGED callVars /\ UNCHANGED inputVars
    /\ UNCHANGED packVars

\* variant: the retry loop gives up at the third failed attempt
ConnectFailedGivesUp ==
    /\ pc = "connect"
    /\ ConnectOutcome # "accept"
    /\ attempts < MaxAttempts
    /\ attempts' = attempts + 1
    /\ IF attempts >= 2
       THEN /\ pc' = "failed"
            /\ ctor_error' = ConnectOutcome
            /\ UNCHANGED <<sleeps, elapsed>>
       ELSE Except(ConnectOutcome)
    /\ UNCHANGED <<conn, ws, server_metadata>>
    /\ UNCHANGED wireVars /\ UNCHANGED callVars /\ UNCHANGED inputVars
    /\ UNCHANGED packVars

ConnectFailed ==
    /\ pc = "connect"
    /\ ConnectOutcome # "accept"
    /\ attempts < MaxAttempts
    /\ attempts' = attempts + 1
    /\ Except(ConnectOutcome)
    /\ UNCHANGED <<conn, ws, server_metadata>>
    /\ UNCHANGED wireVars /\ UNCHANGED callVars /\ UNCHANGED inputVars
    /\ UNCHANGED packVars

\* variant: the received metadata is stored without decoding
RecvMetadataRaw ==
    /\ pc = "recv_metadata"
    /\ inbox # <<>>
    /\ LET m == Head(inbox)
       IN  /\ inbox' = Tail(inbox)
           /\ oplog' = Append(oplog, Op("recv", Constructor, conn, m))
           /\ ws' = conn
           /\ server_metadata' = [t |-> "bytes", v |-> m.body]
           /\ pc' = "ready"
           /\ UNCHANGED <<sleeps, elapsed, ctor_error>>
    /\ UNCHANGED <<attempts, opened, served, conn>>
    /\ UNCHANGED callVars /\ UNCHANGED inputVars
    /\ UNCHANGED packVars

\* metadata = msgpack_numpy.unpackb(conn.recv()); return conn, metadata
RecvMetadata ==
    /\ pc = "recv_metadata"
    /\ inbox # <<>>
    /\ LET m == Head(inbox)
           d == unpackb(m.body)
       IN  /\ inbox' = Tail(inbox)
           /\ oplog' = Append(oplog, Op("recv", Constructor, conn, m))
           /\ IF m.type = "text"
              THEN Except("TypeError") /\ UNCHANGED <<ws, server_metadata>>
              ELSE IF ~d.ok
              THEN Except("ValueError") /\ UNCHANGED <<ws, server_metadata>>
              ELSE /\ ws' = conn
                   /\ server_metadata' = d.val
                   /\ pc' = "ready"
                   /\ UNCHANGED <<sleeps, elapsed, ctor_error>>
    /\ UNCHANGED <<attempts, opened, served, conn>>
    /\ UNCHANGED callVars /\ UNCHANGED inputVars
    /\ UNCHANGED packVars

(***************************************************************************)
(* The server end of the connection: one metadata message after accepting, *)
(* then one reply per request, in order.  Message k answers the k-th       *)
(* request sent on the connection.                                         *)
(***************************************************************************)
Sent == SelectSeq(oplog, LAMBDA o : o.op = "send")
Received == SelectSeq(oplog, LAMBDA o : o.op = "recv")

\* the position, among the requests sent, of the request of c's latest call
ReqIndex(c) ==
    CHOOSE i \in DOMAIN Sent :
       Sent[i].by = c /\ \A j \in DOMAIN Sent : j > i => Sent[j].by # c

\* operations performed by caller c, in order
OpsBy(c) == SelectSeq(oplog, LAMBDA o : o.by = c)

ServerSendMetadata ==
    /\ opened > 0
    /\ ~served.meta
    /\ \E m \in MetadataMessages :
          /\ inbox' = Append(inbox, m)
          /\ served' = [served EXCEPT !.meta = TRUE]
    /\ UNCHANGED <<opened, oplog>>
    /\ UNCHANGED clientVars /\ UNCHANGED retryVars
    /\ UNCHANGED callVars /\ UNCHANGED inputVars
    /\ UNCHANGED packVars

ServerReply ==
    /\ served.replies < Len(Sent)
    /\ \E m \in ReplyMessages(served.replies + 1) :
          /\ inbox' = Append(inbox, m)
          /\ served' = [served EXCEPT !.replies = served.replies + 1]
    /\ UNCHANGED <<opened, oplog>>
    /\ UNCHANGED clientVars /\ UNCHANGED retryVars
    /\ UNCHANGED callVars /\ UNCHANGED inputVars
    /\ UNCHANGED packVars

(***************************************************************************)
(* infer(obs, timeout): pack and send, then block in recv.                 *)
(***************************************************************************)
\* variant: the request is sent before the encoding failure is raised
InferSendThenFail(c) ==
    /\ pc = "ready"
    /\ c \in active
    /\ call[c].pc = "idle"
    /\ ncalls < MaxCalls
    /\ \E obs \in Requests, timeout \in timeouts :
          LET data == pack(obs)
          IN  /\ oplog' = Append(oplog, Op("send", c, ws, Binary(packer \o data.b, 0)))
              /\ IF ~data.ok
                 THEN /\ result' = [result EXCEPT
                             ![c] = Raised("infer", "TypeError", <<>>, obs, timeout)]
                      /\ UNCHANGED call
                 ELSE /\ call' = [call EXCEPT ![c] = [pc |-> "recv", obs |-> obs,
                                                      timeout |-> timeout, waited |-> 0]]
                      /\ result' = [result EXCEPT ![c] = NoResult]
    /\ ncalls' = ncalls + 1
    /\ UNCHANGED <<opened, inbox, served, nresets, nmeta>>
    /\ UNCHANGED clientVars /\ UNCHANGED retryVars /\ UNCHANGED inputVars
    /\ packer' = <<>>
    /\ overlapped' = (overlapped \/ \E d \in Callers \ {c} : call[d].pc # "idle")
    /\ UNCHANGED packing

\* variant: the client holds a lock for the length of a call
InferSendLocked(c) ==
    /\ pc = "ready"
    /\ c \in active
    /\ \A d \in Callers : call[d].pc = "idle"
    /\ ncalls < MaxCalls
    /\ \E obs \in Requests, timeout \in timeouts :
          LET data == pack(obs)
          IN  IF ~data.ok
              THEN /\ result' = [result EXCEPT
                          ![c] = Raised("infer", "TypeError", <<>>, obs, timeout)]
                   /\ UNCHANGED <<call, oplog>>
              ELSE /\ oplog' = Append(oplog, Op("send", c, ws, Binary(packer \o data.b, 0)))
                   /\ call' = [call EXCEPT ![c] = [pc |-> "recv", obs |-> obs,
                                                   timeout |-> timeout, waited |-> 0]]
                   /\ result' = [result EXCEPT ![c] = NoResult]
    /\ ncalls' = ncalls + 1
    /\ UNCHANGED <<opened, inbox, served, nresets, nmeta>>
    /\ UNCHANGED clientVars /\ UNCHANGED retryVars /\ UNCHANGED inputVars
    /\ packer' = <<>>
    /\ overlapped' = (overlapped \/ \E d \in Callers \ {c} : call[d].pc # "idle")
    /\ UNCHANGED packing

InferSend(c) ==
    /\ pc = "ready"
    /\ c \in active
    /\ call[c].pc = "idle"
    /\ ncalls < MaxCalls
    /\ \E obs \in Requests, timeout \in timeouts :
          LET data == pack(obs)
          IN  IF ~data.ok
              THEN /\ result' = [result EXCEPT
                          ![c] = Raised("infer", "TypeError", <<>>, obs, timeout)]
                   /\ UNCHANGED <<call, oplog>>
              ELSE /\ oplog' = Append(oplog, Op("send", c, ws, Binary(packer \o data.b, 0)))
                   /\ call' = [call EXCEPT ![c] = [pc |-> "recv", obs |-> obs,
                                                   timeout |-> timeout, waited |-> 0]]
                   /\ result' = [result EXCEPT ![c] = NoResult]
    /\ ncalls' = ncalls + 1
    /\ UNCHANGED <<opened, inbox, served, nresets, nmeta>>
    /\ UNCHANGED clientVars /\ UNCHANGED retryVars /\ UNCHANGED inputVars
    /\ packer' = <<>>
    /\ overlapped' = (overlapped \/ \E d \in Callers \ {c} : call[d].pc # "idle")
    /\ UNCHANGED packing

(***************************************************************************)
(* The same two lines when the calling thread is preempted inside          *)
(* self._packer.pack(obs): the packer is shared by all callers and pack    *)
(* takes no lock, so each write into the buffer, the read of the buffer,   *)
(* its reset and the send that follows are steps of their own, between     *)
(* which another caller may run.  InferSend above is the run of these      *)
(* steps without preemption.                                               *)
(***************************************************************************)
\* the caller enters pack
InferPack(c) ==
    /\ pc = "ready"
    /\ c \in active
    /\ call[c].pc = "idle"
    /\ ncalls < MaxCalls
    /\ \E obs \in Requests, timeout \in timeouts :
          /\ call' = [call EXCEPT ![c] = [pc |-> "pack", obs |-> obs,
                                          timeout |-> timeout, waited |-> 0]]
          /\ packing' = [packing EXCEPT
                ![c] = [todo |-> PackWrites(obs).w, ok |-> PackWrites(obs).ok,
                        data |-> <<>>]]
    /\ result' = [result EXCEPT ![c] = NoResult]
    /\ ncalls' = ncalls + 1
    /\ overlapped' = (overlapped \/ \E d \in Callers \ {c} : call[d].pc # "idle")
    /\ UNCHANGED <<packer, nresets, nmeta>>
    /\ UNCHANGED clientVars /\ UNCHANGED retryVars
    /\ UNCHANGED wireVars /\ UNCHANGED inputVars

\* self._buffer.write(...): the next write lands in the shared buffer
PackerWrite(c) ==
    /\ call[c].pc = "pack"
    /\ packing[c].todo # <<>>
    /\ packer' = packer \o Head(packing[c].todo)
    /\ packing' = [packing EXCEPT ![c].todo = Tail(@)]
    /\ UNCHANGED <<call, result, ncalls, nresets, nmeta, overlapped>>
    /\ UNCHANGED clientVars /\ UNCHANGED retryVars
    /\ UNCHANGED wireVars /\ UNCHANGED inputVars

\* except: self._buffer = StringIO(); raise
PackerRaise(c) ==
    /\ call[c].pc = "pack"
    /\ packing[c].todo = <<>>
    /\ ~packing[c].ok
    /\ packer' = <<>>
    /\ result' = [result EXCEPT
          ![c] = Raised("infer", "TypeError", <<>>, call[c].obs, call[c].timeout)]
    /\ call' = [call EXCEPT ![c] = Idle]
    /\ packing' = [packing EXCEPT ![c] = NoPacking]
    /\ UNCHANGED <<ncalls, nresets, nmeta, overlapped>>
    /\ UNCHANGED clientVars /\ UNCHANGED retryVars
    /\ UNCHANGED wireVars /\ UNCHANGED inputVars

\* ret = self._buffer.getvalue()
PackerGetvalue(c) ==
    /\ call[c].pc = "pack"
    /\ packing[c].todo = <<>>
    /\ packing[c].ok
    /\ packing' = [packing EXCEPT ![c].data = packer]
    /\ call' = [call EXCEPT ![c].pc = "packed"]
    /\ UNCHANGED <<packer, result, ncalls, nresets, nmeta, overlapped>>
    /\ UNCHANGED clientVars /\ UNCHANGED retryVars
    /\ UNCHANGED wireVars /\ UNCHANGED inputVars

\* self._buffer = StringIO(); return ret
PackerReset(c) ==
    /\ call[c].pc = "packed"
    /\ packer' = <<>>
    /\ call' = [call EXCEPT ![c].pc = "send"]
    /\ UNCHANGED <<packing, result, ncalls, nresets, nmeta, overlapped>>
    /\ UNCHANGED clientVars /\ UNCHANGED retryVars
    /\ UNCHANGED wireVars /\ UNCHANGED inputVars

\* self._ws.send(data), with the data pack returned
InferSendPacked(c) ==
    /\ call[c].pc = "send"
    /\ oplog' = Append(oplog, Op("send", c, ws, Binary(packing[c].data, 0)))
    /\ call' = [call EXCEPT ![c].pc = "recv"]
    /\ packing' = [packing EXCEPT ![c] = NoPacking]
    /\ UNCHANGED <<opened, inbox, served, result, ncalls, nresets, nmeta>>
    /\ UNCHANGED <<packer, overlapped>>
    /\ UNCHANGED clientVars /\ UNCHANGED retryVars /\ UNCHANGED inputVars

\* variant: "if timeout:" instead of "if timeout is not None:"
WaitsWithTimeoutTruthy(timeout) == timeout # NoTimeout /\ timeout # 0

\* if timeout is not None: recv(timeout=timeout) else: recv()
WaitsWithTimeout(timeout) == timeout # NoTimeout

\* time passes while the caller is blocked in recv and nothing has arrived
Tick(c) ==
    /\ call[c].pc = "recv"
    /\ inbox = <<>>
    /\ call[c].waited <
          (IF WaitsWithTimeout(call[c].timeout) THEN call[c].timeout ELSE MaxWait)
    /\ call' = [call EXCEPT ![c].waited = @ + 1]
    /\ UNCHANGED <<result, ncalls, nresets, nmeta>>
    /\ UNCHANGED clientVars /\ UNCHANGED retryVars
    /\ UNCHANGED wireVars /\ UNCHANGED inputVars
    /\ UNCHANGED packVars

\* variant: a timeout closes the connection and drops the handle
InferTimeoutClose(c) ==
    /\ call[c].pc = "recv"
    /\ WaitsWithTimeout(call[c].timeout)
    /\ inbox = <<>>
    /\ call[c].waited = call[c].timeout
    /\ result' = [result EXCEPT
          ![c] = Raised("infer", "RuntimeError", TimeoutMessage(call[c].timeout),
                        call[c].obs, call[c].timeout)]
    /\ call' = [call EXCEPT ![c] = Idle]
    /\ oplog' = Append(oplog, Op("close", c, ws, NoMsg))
    /\ ws' = NoConn
    /\ UNCHANGED <<ncalls, nresets, nmeta>>
    /\ UNCHANGED <<pc, conn, server_metadata, ctor_error>>
    /\ UNCHANGED retryVars
    /\ UNCHANGED <<opened, inbox, served>> /\ UNCHANGED inputVars
    /\ UNCHANGED packVars

\* variant: on a timeout the request is sent again and the call waits again
InferTimeoutResend(c) ==
    /\ call[c].pc = "recv"
    /\ WaitsWithTimeout(call[c].timeout)
    /\ inbox = <<>>
    /\ call[c].waited = call[c].timeout
    /\ Len(OpsBy(c)) < 2 * MaxCalls
    /\ oplog' = Append(oplog, Op("send", c, ws, Binary(pack(call[c].obs).b, 0)))
    /\ call' = [call EXCEPT ![c].waited = 0]
    /\ UNCHANGED <<result, ncalls, nresets, nmeta>>
    /\ UNCHANGED clientVars /\ UNCHANGED retryVars
    /\ UNCHANGED <<opened, inbox, served>> /\ UNCHANGED inputVars
    /\ UNCHANGED packVars

\* except TimeoutError: raise RuntimeError(f"Timeout waiting ...")
\* variant: on expiry the wait starts over instead of raising
InferTimeoutRestarts(c) ==
    /\ call[c].pc = "recv"
    /\ WaitsWithTimeout(call[c].timeout)
    /\ inbox = <<>>
    /\ call[c].waited = call[c].timeout
    /\ call' = [call EXCEPT ![c].waited = 0]
    /\ UNCHANGED <<result, ncalls, nresets, nmeta>>
    /\ UNCHANGED clientVars /\ UNCHANGED retryVars
    /\ UNCHANGED wireVars /\ UNCHANGED inputVars
    /\ UNCHANGED packVars

InferTimeout(c) ==
    /\ call[c].pc = "recv"
    /\ WaitsWithTimeout(call[c].timeout)
    /\ inbox = <<>>
    /\ call[c].waited = call[c].timeout
    /\ result' = [result EXCEPT
          ![c] = Raised("infer", "RuntimeError", TimeoutMessage(call[c].timeout),
                        call[c].obs, call[c].timeout)]
    /\ call' = [call EXCEPT ![c] = Idle]
    /\ UNCHANGED <<ncalls, nresets, nmeta>>
    /\ UNCHANGED clientVars /\ UNCHANGED retryVars
    /\ UNCHANGED wireVars /\ UNCHANGED inputVars
    /\ UNCHANGED packVars

\* variant: a binary response is returned as received, without decoding
InferOutcomeNoDecode(response, obs, timeout) ==
    IF response.type = "text"
    THEN Raised("infer", "RuntimeError", ServerErrorMessage(response.body), obs, timeout)
    ELSE Returned("infer", [t |-> "bytes", v |-> response.body], obs, timeout)

\* the outcome of infer once recv has returned response
InferOutcome(response, obs, timeout) ==
    IF response.type = "text"
    THEN Raised("infer", "RuntimeError", ServerErrorMessage(response.body), obs, timeout)
    ELSE LET d == unpackb(response.body)
         IN  IF d.ok THEN Returned("infer", d.val, obs, timeout)
             ELSE Raised("infer", "ValueError", <<>>, obs, timeout)

\* variant: replies to earlier requests are discarded and the call takes the
\* reply to its own request
InferRecvSkipsStale(c) ==
    /\ call[c].pc = "recv"
    /\ \E i \in DOMAIN inbox :
          /\ inbox[i].re = ReqIndex(c)
          /\ inbox' = SubSeq(inbox, i + 1, Len(inbox))
          /\ oplog' = Append(oplog, Op("recv", c, ws, inbox[i]))
          /\ result' = [result EXCEPT
                ![c] = InferOutcome(inbox[i], call[c].obs, call[c].timeout)]
    /\ call' = [call EXCEPT ![c] = Idle]
    /\ UNCHANGED <<opened, served, ncalls, nresets, nmeta>>
    /\ UNCHANGED clientVars /\ UNCHANGED retryVars /\ UNCHANGED inputVars
    /\ UNCHANGED packVars

\* variant: a text reply is looked at but left on the connection
InferRecvKeepsError(c) ==
    /\ call[c].pc = "recv"
    /\ inbox # <<>>
    /\ LET response == Head(inbox)
       IN  /\ inbox' = IF response.type = "text" THEN inbox ELSE Tail(inbox)
           /\ oplog' = Append(oplog, Op("recv", c, ws, response))
           /\ result' = [result EXCEPT
                 ![c] = InferOutcome(response, call[c].obs, call[c].timeout)]
    /\ call' = [call EXCEPT ![c] = Idle]
    /\ UNCHANGED <<opened, served, ncalls, nresets, nmeta>>
    /\ UNCHANGED clientVars /\ UNCHANGED retryVars /\ UNCHANGED inputVars
    /\ UNCHANGED packVars

InferRecv(c) ==
    /\ call[c].pc = "recv"
    /\ inbox # <<>>
    /\ LET response == Head(inbox)
       IN  /\ inbox' = Tail(inbox)
           /\ oplog' = Append(oplog, Op("recv", c, ws, response))
           /\ result' = [result EXCEPT
                 ![c] = InferOutcome(response, call[c].obs, call[c].timeout)]
    /\ call' = [call EXCEPT ![c] = Idle]
    /\ UNCHANGED <<opened, served, ncalls, nresets, nmeta>>
    /\ UNCHANGED clientVars /\ UNCHANGED retryVars /\ UNCHANGED inputVars
    /\ UNCHANGED packVars

(***************************************************************************)
(* get_server_metadata() and reset().                                      *)
(***************************************************************************)
GetServerMetadata(c) ==
    /\ pc = "ready"
    /\ c \in active
    /\ call[c].pc = "idle"
    /\ nmeta < MaxMetaReads
    /\ nmeta' = nmeta + 1
    /\ result' = [result EXCEPT
          ![c] = Returned("get_server_metadata", server_metadata, NoValue, NoTimeout)]
    /\ UNCHANGED <<call, ncalls, nresets>>
    /\ UNCHANGED clientVars /\ UNCHANGED retryVars
    /\ UNCHANGED wireVars /\ UNCHANGED inputVars
    /\ UNCHANGED packVars

\* variant: reset discards what is waiting on the connection
ResetDrains(c) ==
    /\ pc = "ready"
    /\ c \in active
    /\ call[c].pc = "idle"
    /\ nresets < MaxResets
    /\ nresets' = nresets + 1
    /\ result' = [result EXCEPT ![c] = Returned("reset", NoValue, NoValue, NoTimeout)]
    /\ inbox' = <<>>
    /\ UNCHANGED <<call, ncalls, nmeta>>
    /\ UNCHANGED clientVars /\ UNCHANGED retryVars
    /\ UNCHANGED <<opened, served, oplog>> /\ UNCHANGED inputVars
    /\ UNCHANGED packVars

Reset(c) ==
    /\ pc = "ready"
    /\ c \in active
    /\ call[c].pc = "idle"
    /\ nresets < MaxResets
    /\ nresets' = nresets + 1
    /\ result' = [result EXCEPT ![c] = Returned("reset", NoValue, NoValue, NoTimeout)]
    /\ UNCHANGED <<call, ncalls, nmeta>>
    /\ UNCHANGED clientVars /\ UNCHANGED retryVars
    /\ UNCHANGED wireVars /\ UNCHANGED inputVars
    /\ UNCHANGED packVars

Next ==
    \/ ConnectAccepted
    \/ ConnectFailed
    \/ RecvMetadata
    \/ ServerSendMetadata
    \/ ServerReply
    \/ \E c \in Callers : InferSend(c)
    \/ \E c \in Callers : Tick(c)
    \/ \E c \in Callers : InferTimeout(c)
    \/ \E c \in Callers : InferRecv(c)
    \/ \E c \in Callers : GetServerMetadata(c)
    \/ \E c \in Callers : Reset(c)

Spec == Init /\ [][Next]_vars

\* the steps of the handshake and of infer calls (get_server_metadata and reset
\* touch neither the connection nor a call in progress)
NextInfer ==
    \/ ConnectAccepted
    \/ ConnectFailed
    \/ RecvMetadata
    \/ ServerSendMetadata
    \/ ServerReply
    \/ \E c \in Callers : InferSend(c)
    \/ \E c \in Callers : Tick(c)
    \/ \E c \in Callers : InferTimeout(c)
    \/ \E c \in Callers : InferRecv(c)

\* two callers calling without a timeout: a caller may be preempted inside pack
NextConc ==
    \/ ConnectAccepted
    \/ ConnectFailed
    \/ RecvMetadata
    \/ ServerSendMetadata
    \/ ServerReply
    \/ \E c \in Callers : InferSend(c)
    \/ \E c \in Callers : InferRecv(c)
    \/ \E c \in Callers : InferPack(c)
    \/ \E c \in Callers : PackerWrite(c)
    \/ \E c \in Callers : PackerRaise(c)
    \/ \E c \in Callers : PackerGetvalue(c)
    \/ \E c \in Callers : PackerReset(c)
    \/ \E c \in Callers : InferSendPacked(c)

SpecConc == InitConc /\ [][NextConc]_vars

(***************************************************************************)
(* Fairness: the thread running __init__ or infer keeps running and time   *)
(* passes while it is blocked; a server that has accepted sends its        *)
(* metadata.  Nothing obliges the server to reply to a request.            *)
(***************************************************************************)
Fairness ==
    /\ WF_vars(ConnectAccepted)
    /\ WF_vars(ConnectFailed)
    /\ WF_vars(RecvMetadata)
    /\ WF_vars(ServerSendMetadata)
    /\ \A c \in Callers :
          WF_vars(Tick(c)) /\ WF_vars(InferTimeout(c)) /\ WF_vars(InferRecv(c))

SpecFair == InitFair /\ [][NextInfer]_vars /\ Fairness

TypeOK ==
    /\ pc \in {"connect", "recv_metadata", "ready", "failed"}
    /\ ws \in 0..opened /\ conn \in 0..opened
    /\ \A c \in Callers : call[c].pc \in {"idle", "pack", "packed", "send", "recv"}

(***************************************************************************)
(* Derived quantities used by the properties.                              *)
(***************************************************************************)
\* operations performed on connection k, in order
OpsOn(k) == SelectSeq(oplog, LAMBDA o : o.conn = k)

\* replies received by callers (the metadata receive is the constructor's)
RepliesReceived == SelectSeq(oplog, LAMBDA o : o.op = "recv" /\ o.by # Constructor)

\* requests sent whose reply the client has not received
InFlight == Len(Sent) - Len(RepliesReceived)

\* caller c starts a call whose request is sent / completes a call by a receive
StartsReceive(c) == call[c].pc = "idle" /\ call'[c].pc = "recv"
CompletesByReceive(c) ==
    call[c].pc = "recv" /\ call'[c].pc = "idle" /\ Len(oplog') = Len(oplog) + 1

IsTimeoutError(r) ==
    /\ r.kind = "raise"
    /\ r.exc = "RuntimeError"
    /\ Len(r.msg) >= 7
    /\ SubSeq(r.msg, 1, 7) = <<84, 105, 109, 101, 111, 117, 116>>

(***************************************************************************)
(* C1.  Handshake retry: when the connector refuses the first N connect    *)
(* attempts and accepts the next one, the connection is obtained after     *)
(* exactly N + 1 attempts and N sleeps of 5 each (N * 5 in total), the     *)
(* refusals are never surfaced, and a client that reaches ready has        *)
(* raised no error.                                                        *)
(***************************************************************************)
HandshakeRetry ==
    /\ ctor_error # "ConnectionRefusedError"
    /\ pc \in {"recv_metadata", "ready"} =>
          /\ connector.final = "accept"
          /\ attempts = connector.refusals + 1
          /\ sleeps = connector.refusals
          /\ elapsed = connector.refusals * 5
          /\ ctor_error = None
    /\ pc = "connect" => sleeps = attempts /\ elapsed = 5 * attempts

HandshakeRetryWitness ==
    pc = "ready" /\ connector.refusals = 2 /\ attempts = 3 /\ elapsed = 10

(***************************************************************************)
(* C2.  Handshake ordering: no request is sent and no call is made before  *)
(* the client is ready; on the connection the client keeps, the first      *)
(* operation after the connect is the metadata receive, it is the only     *)
(* receive made by the constructor, and every send comes after it.         *)
(***************************************************************************)
HandshakeOrdering ==
    /\ pc # "ready" => Sent = <<>> /\ ncalls = 0 /\ nmeta = 0 /\ ws = NoConn
    /\ pc = "ready" =>
          LET ops == OpsOn(ws)
          IN  /\ ws # NoConn
              /\ Len(ops) >= 2
              /\ ops[1].op = "connect"
              /\ ops[2].op = "recv" /\ ops[2].by = Constructor
              /\ \A i \in DOMAIN ops :
                    /\ (ops[i].op = "recv" /\ ops[i].by = Constructor) => i = 2
                    /\ ops[i].op = "send" => i > 2

HandshakeOrderingWitness ==
    pc = "ready" /\ Len(Sent) = 2 /\ Len(RepliesReceived) = 1

(***************************************************************************)
(* C3 (as amended).  Round trip: a call whose request the codec encodes    *)
(* sends exactly one message, whose content is the encoding of the         *)
(* request; a call whose request cannot be encoded sends nothing.  When    *)
(* the message the call receives is binary and the codec decodes it, the   *)
(* call returns the decoded value and raises nothing; when the codec       *)
(* cannot decode it, the call raises the codec's error.                    *)
(***************************************************************************)
RoundTripSend(c) ==
    /\ StartsReceive(c) =>
          /\ pack(call'[c].obs).ok
          /\ oplog' = Append(oplog,
                 Op("send", c, ws, Binary(pack(call'[c].obs).b, 0)))
    /\ (ncalls' = ncalls + 1 /\ result'[c] # result[c] /\ ~StartsReceive(c)) =>
          /\ ~pack(result'[c].obs).ok
          /\ result'[c].kind = "raise"
          /\ oplog' = oplog

RoundTripReceive(c) ==
    CompletesByReceive(c) =>
       LET b == Head(inbox)
       IN  /\ oplog'[Len(oplog')].msg = b
           /\ (b.type = "binary" /\ unpackb(b.body).ok) =>
                 /\ result'[c].kind = "return"
                 /\ result'[c].value = unpackb(b.body).val
           /\ (b.type = "binary" /\ ~unpackb(b.body).ok) =>
                 /\ result'[c].kind = "raise"
                 /\ result'[c].exc = "ValueError"

RoundTrip == [][\A c \in Callers : RoundTripSend(c) /\ RoundTripReceive(c)]_vars

RoundTripWitness ==
    /\ result[1].kind = "return" /\ result[1].op = "infer"
    /\ result[1].value = MapV(<< <<StrV(<<97>>), ArrV(<<IntV(1)>>)>> >>)
    /\ Len(Sent) = 1
    /\ Sent[1].msg.body = <<129, 161, 111, 146, 1, 2>>

\* C3 as stated: every call sends one message and every binary reply is
\* returned decoded, without an error
RoundTripAsStated ==
    [][\A c \in Callers :
          /\ ncalls' = ncalls + 1 => Len(Sent') = Len(Sent) + 1
          /\ (CompletesByReceive(c) /\ Head(inbox).type = "binary") =>
                result'[c].kind = "return"]_vars

(***************************************************************************)
(* C4 (as amended).  Error signalling: when the message a call receives    *)
(* is text t, the call raises a RuntimeError whose message is the fixed    *)
(* prefix "Error in inference server:\n" followed by exactly t, and        *)
(* returns no value.                                                       *)
(***************************************************************************)
ErrorSignalling ==
    [][\A c \in Callers :
          (CompletesByReceive(c) /\ Head(inbox).type = "text") =>
             LET t == Head(inbox).body
                 r == result'[c]
             IN  /\ r.kind = "raise" /\ r.exc = "RuntimeError"
                 /\ r.value = NoValue
                 /\ Len(r.msg) = 27 + Len(t)
                 /\ SubSeq(r.msg, 1, 27) = ServerErrorMessage(<<>>)
                 /\ SubSeq(r.msg, 28, Len(r.msg)) = t]_vars

ErrorSignallingWitness ==
    /\ result[1].op = "infer" /\ result[1].kind = "raise"
    /\ result[1].msg = ServerErrorMessage(<<98, 97, 100>>)

\* C4 as stated: the error's message is exactly the received text
ErrorSignallingAsStated ==
    [][\A c \in Callers :
          (CompletesByReceive(c) /\ Head(inbox).type = "text") =>
             /\ result'[c].kind = "raise"
             /\ result'[c].msg = Head(inbox).body]_vars

(***************************************************************************)
(* C5.  Timeout: a call made with a timeout d (d = 0 included) does not    *)
(* wait on an empty connection for longer than d; when d has passed with   *)
(* nothing received it raises the timeout error, whose message carries d,  *)
(* and returns no value.  A call made without a timeout never raises the   *)
(* timeout error.                                                          *)
(***************************************************************************)
TimeoutBounded ==
    \A c \in Callers :
       /\ (call[c].pc = "recv" /\ call[c].timeout # NoTimeout) =>
             call[c].waited <= call[c].timeout
       /\ IsTimeoutError(result[c]) =>
             /\ result[c].timeout # NoTimeout
             /\ result[c].value = NoValue
             /\ Len(result[c].msg) >= 51
             /\ SubSeq(result[c].msg, 49, Len(result[c].msg) - 2)
                   = Digits(result[c].timeout)
       /\ (result[c].op = "infer" /\ result[c].timeout = NoTimeout) =>
             ~IsTimeoutError(result[c])

TimeoutExpiry ==
    \A c \in Callers :
       (/\ call[c].pc = "recv" /\ call[c].timeout # NoTimeout
        /\ inbox = <<>> /\ call[c].waited = call[c].timeout
        /\ call'[c] # call[c]) =>
          /\ call'[c].pc = "idle"
          /\ IsTimeoutError(result'[c])
          /\ result'[c].timeout = call[c].timeout
          /\ oplog' = oplog

TimeoutContract == [](TimeoutBounded) /\ [][TimeoutExpiry]_vars

TimeoutWitness ==
    /\ IsTimeoutError(result[1])
    /\ result[1].timeout = 0
    /\ result[1].msg = TimeoutMessage(0)

(***************************************************************************)
(* C6.  Ready is terminal and reentrant: once ready, the client stays      *)
(* ready whatever the calls made and their outcomes, keeps the connection  *)
(* handle stored by the constructor, and that connection is never closed   *)
(* and no other connection is opened.                                      *)
(***************************************************************************)
ReadyKeepsConnection ==
    pc = "ready" =>
       /\ ws # NoConn /\ ws = conn
       /\ Received[1].by = Constructor /\ Received[1].conn = ws
       /\ \A i \in DOMAIN oplog :
             /\ oplog[i].op \in {"connect", "recv", "send"}
             /\ oplog[i].conn = ws
             /\ oplog[i].op = "connect" => i = 1

ReadyStep ==
    pc = "ready" =>
       /\ pc' = "ready"
       /\ ws' = ws
       /\ opened' = opened

ReadyTerminal == [](ReadyKeepsConnection) /\ [][ReadyStep]_vars

ReadyTerminalWitness ==
    /\ pc = "ready" /\ ncalls = 2 /\ Len(Sent) = 1
    /\ IsTimeoutError(result[1])
    /\ result[1].obs = ReqA

(***************************************************************************)
(* C7.  One request in flight: for a single sequential caller, at most     *)
(* one request has been sent whose reply the client has not received.      *)
(***************************************************************************)
AtMostOneInFlight == InFlight <= 1

(***************************************************************************)
(* C8.  Metadata capture: once ready, the stored metadata is the decoding  *)
(* of the first message received on the connection and no later step       *)
(* changes it; get_server_metadata returns it, sends and receives          *)
(* nothing, and raises nothing.                                            *)
(***************************************************************************)
MetadataIsFirstMessage ==
    pc = "ready" =>
       /\ Received[1].msg.type = "binary"
       /\ unpackb(Received[1].msg.body).ok
       /\ server_metadata = unpackb(Received[1].msg.body).val
       /\ server_metadata = MapV(<< <<StrV(<<100>>), IntV(7)>> >>)

MetadataStep ==
    /\ pc = "ready" => server_metadata' = server_metadata
    /\ nmeta' # nmeta =>
          /\ UNCHANGED <<opened, inbox, served, oplog>>
          /\ UNCHANGED <<pc, conn, ws, server_metadata, ctor_error, call>>
          /\ \E c \in active :
                /\ result'[c].kind = "return"
                /\ result'[c].value = server_metadata

MetadataCapture == [](MetadataIsFirstMessage) /\ [][MetadataStep]_vars

MetadataCaptureWitness ==
    /\ result[1].op = "get_server_metadata"
    /\ result[1].value = MapV(<< <<StrV(<<100>>), IntV(7)>> >>)
    /\ ncalls = 2 /\ Len(RepliesReceived) = 1

(***************************************************************************)
(* C9.  Fatal connect failure: a connect attempt that fails with anything  *)
(* but connection-refused ends the construction in that step with that     *)
(* failure, without a sleep; afterwards nothing more is attempted and the  *)
(* client is never ready.                                                  *)
(***************************************************************************)
FatalConnectStep ==
    /\ (/\ pc = "connect" /\ attempts' = attempts + 1
        /\ ConnectOutcome \in FatalConnectFailures) =>
          /\ pc' = "failed"
          /\ ctor_error' = ConnectOutcome
          /\ sleeps' = sleeps /\ elapsed' = elapsed
          /\ opened' = opened /\ ws' = NoConn
    /\ pc = "failed" =>
          /\ pc' = "failed"
          /\ UNCHANGED <<attempts, sleeps, elapsed, opened, ws, ncalls>>

FatalConnectState ==
    (pc = "failed" /\ ctor_error \in FatalConnectFailures) =>
       /\ ctor_error = connector.final
       /\ attempts = connector.refusals + 1
       /\ sleeps = connector.refusals
       /\ opened = 0 /\ ws = NoConn /\ ncalls = 0

FatalConnect == [](FatalConnectState) /\ [][FatalConnectStep]_vars

FatalConnectWitness ==
    /\ pc = "failed" /\ ctor_error = "InvalidStatus"
    /\ connector.refusals = 1 /\ attempts = 2 /\ sleeps = 1

(***************************************************************************)
(* C10.  No-op reset: a reset call sends nothing, receives nothing and     *)
(* changes nothing of the client, of the connection or of the calls in     *)
(* progress, so whatever follows it is what would have followed without    *)
(* it.                                                                     *)
(***************************************************************************)
ResetStep ==
    nresets' # nresets =>
       /\ UNCHANGED <<pc, conn, ws, server_metadata, ctor_error>>
       /\ UNCHANGED <<opened, inbox, served, oplog>>
       /\ UNCHANGED <<attempts, sleeps, elapsed>>
       /\ UNCHANGED <<call, ncalls, nmeta>>
       /\ \E c \in active : result'[c].op = "reset" /\ result'[c].kind = "return"

ResetNoOp == [][ResetStep]_vars

ResetNoOpWitness ==
    /\ result[1].op = "reset" /\ nresets = 1
    /\ ncalls = 1 /\ inbox # <<>>

(***************************************************************************)
(* Further derived quantities.                                             *)
(***************************************************************************)
\* callers blocked in recv
Busy == {c \in Callers : call[c].pc = "recv"}

\* calls that ended by a timeout: their request was sent, no reply was
\* received for it, and its caller is no longer waiting
TimedOutCalls == InFlight - Cardinality(Busy)

\* caller c ends a call by the timeout error
CompletesByTimeout(c) ==
    call[c].pc = "recv" /\ call'[c].pc = "idle" /\ oplog' = oplog

\* the value {"a": [k]}
ReplyValue(k) == MapV(<< <<StrV(<<97>>), ArrV(<<IntV(k)>>)>> >>)

(***************************************************************************)
(* C11.  Stale reply after timeout: a call that times out leaves the       *)
(* connection open and its request pending, and a call that receives takes *)
(* the oldest reply not yet received: the reply to the request that lies   *)
(* as many requests before its own as calls have timed out.  So after a    *)
(* timeout of infer(r1), whose reply arrives later, infer(r2) returns the  *)
(* reply to r1 (the witness).                                              *)
(***************************************************************************)
StaleReplyStep ==
    \A c \in Callers :
       /\ CompletesByTimeout(c) =>
             /\ ws' = ws /\ inbox' = inbox /\ served' = served
             /\ InFlight' = InFlight /\ InFlight >= 1
             /\ TimedOutCalls' = TimedOutCalls + 1
       /\ CompletesByReceive(c) =>
             /\ Head(inbox).re = ReqIndex(c) - TimedOutCalls
             /\ result'[c] = InferOutcome(Head(inbox), call[c].obs, call[c].timeout)

StaleReply == [][StaleReplyStep]_vars

StaleReplyWitness ==
    /\ Len(Sent) = 2
    /\ Sent[1].msg.body = pack(ReqA).b /\ Sent[2].msg.body = pack(ReqB).b
    /\ Len(RepliesReceived) = 1 /\ RepliesReceived[1].msg.re = 1
    /\ result[1].op = "infer" /\ result[1].obs = ReqB
    /\ result[1].kind = "return" /\ result[1].value = ReplyValue(1)

(***************************************************************************)
(* C12 (as amended).  Alignment without timeouts: for a sequential caller,  *)
(* as long as no call has timed out, the message a call receives is the    *)
(* server's reply to that call's request, which is the k-th request sent   *)
(* (a call whose request cannot be encoded sends nothing and is not        *)
(* counted), and decides the outcome: the decoded payload for a binary     *)
(* reply the codec decodes, the codec's error for a binary reply it        *)
(* rejects, the server error for a text reply.  After the call nothing is  *)
(* left in flight, whatever the outcome, so the next call is aligned too.  *)
(***************************************************************************)
AlignedStep ==
    \A c \in Callers :
       (CompletesByReceive(c) /\ TimedOutCalls = 0) =>
          LET m == Head(inbox)
              k == ReqIndex(c)
          IN  /\ k = Len(Sent)
              /\ m.re = k
              /\ (m.type = "binary" /\ unpackb(m.body).ok) =>
                    result'[c].kind = "return" /\ result'[c].value = ReplyValue(k)
              /\ (m.type = "binary" /\ ~unpackb(m.body).ok) =>
                    result'[c].kind = "raise" /\ result'[c].exc = "ValueError"
              /\ m.type = "text" =>
                    /\ result'[c].kind = "raise"
                    /\ result'[c].exc = "RuntimeError"
                    /\ result'[c].msg = ServerErrorMessage(m.body)
              /\ inbox' = <<>> /\ InFlight' = 0 /\ TimedOutCalls' = 0

Aligned == [][AlignedStep]_vars

\* C12 as stated: with no timed-out call, the k-th call made receives the
\* reply to the k-th request, returns when that reply is binary and raises
\* the server error when it is text
AlignedAsStated ==
    [][\A c \in Callers :
          (CompletesByReceive(c) /\ TimedOutCalls = 0) =>
             LET m == Head(inbox)
             IN  /\ m.re = ncalls
                 /\ m.type = "binary" => result'[c].kind = "return"
                 /\ m.type = "text" =>
                       /\ result'[c].kind = "raise"
                       /\ result'[c].msg = ServerErrorMessage(m.body)]_vars

AlignedWitness ==
    /\ Len(RepliesReceived) = 2
    /\ RepliesReceived[1].msg.type = "text" /\ RepliesReceived[1].msg.re = 1
    /\ RepliesReceived[2].msg.re = 2
    /\ result[1].kind = "return" /\ result[1].value = ReplyValue(2)

(***************************************************************************)
(* C13.  I/O discipline of a call: a call that gets past encoding sends    *)
(* its request once, then makes one receive attempt, which ends the call   *)
(* by a message or by the timeout; between the two and outside a call the  *)
(* caller performs no operation on the connection.                         *)
(***************************************************************************)
IODisciplineStep ==
    \A c \in Callers :
       /\ StartsReceive(c) =>
             oplog' = Append(oplog,
                 Op("send", c, ws, Binary(pack(call'[c].obs).b, 0)))
       /\ (call[c].pc = "recv" /\ call'[c].pc = "recv") => OpsBy(c)' = OpsBy(c)
       /\ (call[c].pc = "recv" /\ call'[c].pc = "idle") =>
             \/ oplog' = oplog
             \/ /\ inbox # <<>>
                /\ oplog' = Append(oplog, Op("recv", c, ws, Head(inbox)))
       /\ (call[c].pc = "idle" /\ call'[c].pc = "idle") => OpsBy(c)' = OpsBy(c)

IODisciplineState ==
    \A c \in Callers :
       LET ops == OpsBy(c)
       IN  /\ \A i \in DOMAIN ops :
                /\ ops[i].op \in {"send", "recv"}
                /\ ops[i].op = "recv" => (i > 1 /\ ops[i - 1].op = "send")
           /\ (call[c].pc = "recv") => ops[Len(ops)].op = "send"

IODiscipline == [](IODisciplineState) /\ [][IODisciplineStep]_vars

IODisciplineWitness ==
    /\ Len(OpsBy(1)) = 4
    /\ OpsBy(1)[1].op = "send" /\ OpsBy(1)[2].op = "recv"
    /\ OpsBy(1)[3].op = "send" /\ OpsBy(1)[4].op = "recv"
    /\ result[1].kind = "raise" /\ result[1].exc = "ValueError"

(***************************************************************************)
(* C14.  Concurrent misuse: nothing in the client keeps a caller from      *)
(* starting a call while another caller's call is in progress, so two      *)
(* requests can be in flight at once and a caller can receive the reply to *)
(* the other caller's request (the witness).  When the calls have been     *)
(* serialised (no call started during another, each send followed by its   *)
(* caller's receive before the next send) and none has timed out, at most  *)
(* one call is in progress, at most one request is in flight, every        *)
(* message sent is the encoding of a request and a call receives the       *)
(* reply to its own request.                                               *)
(***************************************************************************)
\* no call started while another was in progress, and every request sent so
\* far was answered to its caller before the next send
Serialised ==
    /\ ~overlapped
    /\ \A i \in DOMAIN oplog :
          (oplog[i].op = "send" /\ i < Len(oplog)) =>
             oplog[i + 1].op = "recv" /\ oplog[i + 1].by = oplog[i].by

\* the encodings of the requests the codec can encode
WholeEncodings == {pack(r).b : r \in {q \in Requests : pack(q).ok}}

NoLocking ==
    \A c \in active :
       (pc = "ready" /\ call[c].pc = "idle" /\ ncalls < MaxCalls) =>
          ENABLED InferSend(c)

SerialisedState ==
    (Serialised /\ TimedOutCalls = 0) =>
       /\ InFlight <= 1
       /\ Cardinality({c \in Callers : call[c].pc # "idle"}) <= 1
       /\ Len(inbox) <= 1
       /\ \A i \in DOMAIN Sent : Sent[i].msg.body \in WholeEncodings

SerialisedStep ==
    \A c \in Callers :
       (CompletesByReceive(c) /\ Serialised /\ TimedOutCalls = 0) =>
          /\ Head(inbox).re = ReqIndex(c)
          /\ oplog'[Len(oplog')].msg.re = ReqIndex(c)
          /\ Serialised' /\ InFlight' = 0

ConcurrentMisuse ==
    [](NoLocking /\ SerialisedState) /\ [][SerialisedStep]_vars

ConcurrentMisuseWitness ==
    /\ Len(Sent) = 2 /\ Sent[1].by = 1 /\ Sent[2].by = 2
    /\ OpsBy(1)[Len(OpsBy(1))].op = "send" /\ call[1].pc = "recv"
    /\ call[1].timeout = NoTimeout
    /\ Len(RepliesReceived) = 1
    /\ RepliesReceived[1].by = 2 /\ RepliesReceived[1].msg.re = 1
    /\ result[2].timeout = NoTimeout
    /\ result[2].kind = "return" /\ result[2].value = ReplyValue(1)

(***************************************************************************)
(* C15.  Construction liveness: with a connector that accepts after        *)
(* finitely many refusals and a server that sends its metadata, the        *)
(* construction eventually ends, ready when the metadata decodes (it fails *)
(* only on metadata the codec rejects).  With a connector that refuses     *)
(* every attempt the construction never completes and never fails: it is   *)
(* still connecting after every attempt, however many have been made.      *)
(***************************************************************************)
RefusesForever == connector.final = "ConnectionRefusedError"

GoodMetadataWaiting ==
    /\ pc = "recv_metadata" /\ inbox # <<>>
    /\ Head(inbox).type = "binary" /\ unpackb(Head(inbox).body).ok

ConstructionState ==
    /\ RefusesForever =>
          /\ pc = "connect" /\ ctor_error = None /\ opened = 0
          /\ sleeps = attempts
    /\ (pc = "failed" /\ connector.final = "accept") =>
          \/ Received[1].msg.type = "text"
          \/ ~unpackb(Received[1].msg.body).ok

ConstructionLive ==
    /\ [](ConstructionState)
    /\ (connector.final = "accept") ~> (pc = "ready" \/ pc = "failed")
    /\ GoodMetadataWaiting ~> (pc = "ready")
    /\ RefusesForever ~> (attempts = MaxAttempts)

ConstructionLiveWitness ==
    /\ RefusesForever /\ pc = "connect"
    /\ attempts = 4 /\ sleeps = 4 /\ elapsed = 20

(***************************************************************************)
(* C16.  Connection created once: after a connect attempt has succeeded    *)
(* no further attempt is made and no second connection is opened; while    *)
(* the metadata has not arrived the constructor can take no step; a        *)
(* metadata message the codec rejects ends the construction with the       *)
(* codec's error, without a sleep or a retry.                              *)
(***************************************************************************)
ConnectOnceState ==
    /\ opened <= 1
    /\ opened = 1 => attempts = connector.refusals + 1
    /\ (pc = "recv_metadata" /\ inbox = <<>>) =>
          ~ENABLED (ConnectAccepted \/ ConnectFailed \/ RecvMetadata)

ConnectOnceStep ==
    /\ opened >= 1 =>
          /\ opened' = opened /\ conn' = conn
          /\ attempts' = attempts /\ sleeps' = sleeps /\ elapsed' = elapsed
    /\ (pc = "recv_metadata" /\ pc' # "recv_metadata" /\ pc' # "ready") =>
          /\ pc' = "failed"
          /\ ctor_error' \in {"TypeError", "ValueError"}
          /\ ws' = NoConn

ConnectOnce == [](ConnectOnceState) /\ [][ConnectOnceStep]_vars

ConnectOnceWitness ==
    /\ pc = "failed" /\ ctor_error = "ValueError"
    /\ opened = 1 /\ connector.refusals = 1 /\ attempts = 2 /\ sleeps = 1

(***************************************************************************)
(* C17.  Codec failure on the request: a request is sent only when its     *)
(* encoding succeeded; a call whose request cannot be encoded raises the   *)
(* codec's error and leaves the connection, the messages on it, the        *)
(* client's fields and the calls in progress as they were.                 *)
(***************************************************************************)
EncodeFailureStep ==
    /\ \A c \in Callers : StartsReceive(c) => pack(call'[c].obs).ok
    /\ (ncalls' = ncalls + 1 /\ call' = call) =>
          /\ UNCHANGED <<opened, inbox, served, oplog>>
          /\ UNCHANGED <<pc, conn, ws, server_metadata, ctor_error>>
          /\ UNCHANGED <<nresets, nmeta>>
          /\ \E c \in active :
                /\ result'[c].op = "infer"
                /\ result'[c].kind = "raise" /\ result'[c].exc = "TypeError"
                /\ ~pack(result'[c].obs).ok
                /\ \A d \in Callers \ {c} : result'[d] = result[d]

EncodeFailure == [][EncodeFailureStep]_vars

EncodeFailureWitness ==
    /\ result[1].op = "infer" /\ result[1].exc = "TypeError"
    /\ result[1].obs = ReqBad
    /\ ncalls = 2 /\ Len(Sent) = 1 /\ Len(RepliesReceived) = 0
    /\ inbox # <<>>

(***************************************************************************)
(* C18 (as amended).  Bounded response: a call made with a timeout and     *)
(* waiting for its reply eventually ends, even when the server never       *)
(* replies, with the decoded payload, the server's error, the timeout      *)
(* error, or the codec's error when the reply cannot be decoded; a call    *)
(* made without a timeout ends only by receiving a message, and stays      *)
(* blocked while none has arrived.                                         *)
(***************************************************************************)
TimedCallEnds(c) ==
    /\ call[c].pc = "recv" /\ call[c].timeout # NoTimeout
    /\ call'[c].pc = "idle"

TimedOutcomeStep ==
    \A c \in Callers :
       TimedCallEnds(c) =>
          \/ /\ CompletesByTimeout(c)
             /\ result'[c].exc = "RuntimeError"
             /\ result'[c].msg = TimeoutMessage(call[c].timeout)
          \/ /\ CompletesByReceive(c)
             /\ \/ result'[c].kind = "return"
                \/ /\ result'[c].exc = "RuntimeError"
                   /\ Head(inbox).type = "text"
                \/ /\ result'[c].exc = "ValueError"
                   /\ Head(inbox).type = "binary"
                   /\ ~unpackb(Head(inbox).body).ok

UntimedStep ==
    \A c \in Callers :
       (call[c].pc = "recv" /\ call[c].timeout = NoTimeout) =>
          /\ call'[c].pc = "idle" => (inbox # <<>> /\ CompletesByReceive(c))
          /\ inbox = <<>> => call'[c].pc = "recv"

TimedCallsEnd ==
    \A c \in Callers :
       (call[c].pc = "recv" /\ call[c].timeout # NoTimeout) ~> (call[c].pc = "idle")

BoundedResponse ==
    /\ TimedCallsEnd
    /\ [][TimedOutcomeStep /\ UntimedStep]_vars

\* C18 as stated: a call made with a timeout ends with a payload, the
\* server's error or the timeout error, and with nothing else
BoundedResponseAsStated ==
    /\ TimedCallsEnd
    /\ [][\A c \in Callers :
             TimedCallEnds(c) =>
                \/ result'[c].kind = "return"
                \/ result'[c].exc = "RuntimeError"]_vars

BoundedResponseWitness ==
    /\ result[1].op = "infer" /\ result[1].timeout = 1
    /\ result[1].kind = "raise" /\ result[1].exc = "ValueError"
    /\ call[1].pc = "idle" /\ Len(Sent) = 1 /\ Len(RepliesReceived) = 1

====
